---- MODULE Spec2Model ----
(***************************************************************************)
(* Model of context_config.py: the range-keyed IntervalConfig (an interval *)
(* map painted over an intervaltree.IntervalTree) and the name-keyed       *)
(* DictConfig that can hold one, with the BaseConfig indexing protocol.    *)
(***************************************************************************)
EXTENDS Integers, Sequences, FiniteSets, TLC

\* Bounds of the explored domain.
MaxPoint == 4
MaxVals == 3
MaxStep == 2
MaxLabels == 2
MaxNeg == 2
MaxDepth == 2

\* Opaque stored values; ValueOrder is the order Python's < gives them.
ValueOrder == <<"x", "y">>
Values == {ValueOrder[i] : i \in 1..Len(ValueOrder)}
Points == 0..MaxPoint
Windows == {w \in Points \X Points : w[1] < w[2]}
Steps == 1..MaxStep
RECURSIVE SeqsUpTo(_)
SeqsUpTo(n) ==
    IF n = 0 THEN {<<>>}
    ELSE LET shorter == SeqsUpTo(n - 1)
         IN shorter \cup {Append(s, v) : s \in {q \in shorter : Len(q) = n - 1}, v \in Values}
ValueSeqs == SeqsUpTo(MaxVals)
\* A domain with negative points, and its windows and (begin, end) keys.
SignedPoints == (0 - MaxNeg)..MaxNeg
SignedWindows == {w \in SignedPoints \X SignedPoints : w[1] < w[2]}

\* Python's None, and the outcome of a call that raised KeyError.
None == "None"
KeyError == "KeyError"

\* tree: R._tree of the IntervalConfig R; parent: R.parent (<<>> is None);
\* attrs: S._attrs of the DictConfig S; last: the call in progress and what
\* it returned ("idle" between calls); prev, prevAttrs: tree and attrs as
\* they were when that call was made. subs: the _attrs of the contexts made
\* by subcontext(), subs[1] of S's child, subs[i + 1] of the child of the
\* context of subs[i]; prevSubs: subs when the call was made.
VARIABLES tree, parent, attrs, prev, prevAttrs, last, subs, prevSubs
vars == <<tree, parent, attrs, prev, prevAttrs, last, subs, prevSubs>>

----
\* intervaltree primitives, on a tree held as a set of <<begin, end, data>>.

Interval(begin, end, data) == <<begin, end, data>>

IntervalTree(ivs) == ivs

tree_at(t, p) == {iv \in t : iv[1] <= p /\ p < iv[2]}

tree_overlap(t, begin, end) ==
    IF begin >= end THEN {} ELSE {iv \in t : iv[1] < end /\ iv[2] > begin}

tree_envelop(t, begin, end) ==
    IF begin >= end THEN {} ELSE {iv \in t : iv[1] >= begin /\ iv[2] <= end}

\* IntervalTree.chop: drop what lies inside [begin, end), trim what hangs in.
tree_chop(t, begin, end) ==
    LET begin_hits == {iv \in tree_at(t, begin) : iv[1] < begin}
        end_hits == {iv \in tree_at(t, end) : iv[2] > end}
        insertions == {Interval(iv[1], begin, iv[3]) : iv \in begin_hits}
                      \cup {Interval(end, iv[2], iv[3]) : iv \in end_hits}
    IN  (((t \ tree_envelop(t, begin, end)) \ begin_hits) \ end_hits) \cup insertions

tree_addi(t, begin, end, data) == t \cup {Interval(begin, end, data)}

\* Python's ordering of the stored values and of Interval / triple tuples.
DataRank(d) == CHOOSE i \in 1..Len(ValueOrder) : ValueOrder[i] = d
IntervalLt(a, b) ==
    \/ a[1] < b[1]
    \/ a[1] = b[1] /\ a[2] < b[2]
    \/ a[1] = b[1] /\ a[2] = b[2] /\ DataRank(a[3]) < DataRank(b[3])

RECURSIVE sorted(_)
sorted(S) ==
    IF S = {} THEN <<>>
    ELSE LET m == CHOOSE x \in S : \A y \in S \ {x} : IntervalLt(x, y)
         IN <<m>> \o sorted(S \ {m})

----
\* IntervalConfig methods.

\* IntervalConfig.value: the point query; KeyError when nothing covers index.
value(t, index) ==
    LET hits == sorted(tree_at(t, index))
    IN  IF Len(hits) > 0 THEN hits[1][3] ELSE KeyError

\* IntervalConfig.set_interval: the paint. The two definitions before it are
\* the paint without its chop, and the paint chopping one point too far.
set_interval_no_chop(t, begin, end, v) == tree_addi(t, begin, end, v)

set_interval_chop_wide(t, begin, end, v) ==
    tree_addi(tree_chop(t, begin, end + 1), begin, end, v)

set_interval(t, begin, end, v) ==
    tree_addi(tree_chop(t, begin, end), begin, end, v)

\* list(range(start, stop, step)) for step > 0.
PyRange(start, stop, step) ==
    LET n == IF stop <= start THEN 0 ELSE (stop - start + step - 1) \div step
    IN  [i \in 1..n |-> start + (i - 1) * step]

Min(a, b) == IF a < b THEN a ELSE b

\* The loop of configure's stepped branch over zip(indices[:-1], indices[1:], value).
RECURSIVE PaintZip(_, _, _, _, _)
PaintZip(t, indices, val, i, n) ==
    IF i > n THEN t
    ELSE PaintZip(set_interval(t, indices[i], indices[i + 1], val[i]), indices, val, i + 1, n)

\* configure's stepped branch for (start, stop, step).
configure_step(t, start, stop, step, val) ==
    LET indices == PyRange(start, stop, step)
        pairs == IF Len(indices) = 0 THEN 0 ELSE Len(indices) - 1
    IN  PaintZip(t, indices, val, 1, Min(pairs, Len(val)))

\* IntervalConfig.overlap_content: the range-overlap query. A result is the
\* exception raised (None when the call returns), whether a bare value was
\* returned rather than a list, and the value(s). The definition before it
\* counts intervals that only touch the window.
overlap_content_closed(t, begin, end) ==
    LET hits == sorted({iv \in t : iv[1] <= end /\ iv[2] >= begin})
    IN  IF Len(hits) = 1
        THEN [exc |-> None, unwrapped |-> TRUE, data |-> <<hits[1][3]>>]
        ELSE [exc |-> None, unwrapped |-> FALSE,
              data |-> [i \in 1..Len(hits) |-> hits[i][3]]]

overlap_content(t, begin, end) ==
    LET hits == sorted(tree_overlap(t, begin, end))
    IN  IF Len(hits) = 1
        THEN [exc |-> None, unwrapped |-> TRUE, data |-> <<hits[1][3]>>]
        ELSE [exc |-> None, unwrapped |-> FALSE,
              data |-> [i \in 1..Len(hits) |-> hits[i][3]]]

delete_remove_overlap(t, begin, end) == t \ tree_overlap(t, begin, end)

\* IntervalConfig.delete for a (begin, end) tuple.
delete2(t, begin, end) == tree_chop(t, begin, end)

\* IntervalConfig.__getstate__: the stored triples as a sorted tuple.
getstate_reversed(t) ==
    LET s == sorted(t) IN [i \in 1..Len(s) |-> s[Len(s) + 1 - i]]

getstate(t) == sorted(t)

\* IntervalConfig.__setstate__: the tree rebuilt from the triples of d.
setstate(d) == IntervalTree({Interval(d[i][1], d[i][2], d[i][3]) : i \in 1..Len(d)})

\* IntervalConfig.__init__(parent, tree); an argument is <<>> for None and
\* <<x>> for x.
IntervalConfig_init(parentArg, treeArg) ==
    [parent |-> parentArg,
     tree |-> IF treeArg = <<>> THEN IntervalTree({}) ELSE treeArg[1]]

----
\* Labels: strings are sequences of one-character strings.

Digits == <<"0", "1", "2", "3", "4", "5", "6", "7", "8", "9">>

\* str(n) for an integer n.
RECURSIVE PyStrNat(_)
PyStrNat(n) ==
    IF n < 10 THEN <<Digits[n + 1]>>
    ELSE Append(PyStrNat(n \div 10), Digits[(n % 10) + 1])
PyStr(n) == IF n < 0 THEN <<"-">> \o PyStrNat(0 - n) ELSE PyStrNat(n)

\* s.split(sep) for a one-character sep.
RECURSIVE PySplit(_, _)
PySplit(s, sep) ==
    IF \A i \in 1..Len(s) : s[i] # sep THEN <<s>>
    ELSE LET i == CHOOSE j \in 1..Len(s) :
                      s[j] = sep /\ \A k \in 1..(j - 1) : s[k] # sep
         IN <<SubSeq(s, 1, i - 1)>> \o PySplit(SubSeq(s, i + 1, Len(s)), sep)

DigitValue(c) == (CHOOSE i \in 1..10 : Digits[i] = c) - 1
IsDigits(s) == Len(s) > 0 /\ \A i \in 1..Len(s) : \E j \in 1..10 : Digits[j] = s[i]
RECURSIVE DigitsValue(_)
DigitsValue(s) ==
    IF Len(s) = 0 THEN 0
    ELSE 10 * DigitsValue(SubSeq(s, 1, Len(s) - 1)) + DigitValue(s[Len(s)])

\* int(s): <<n>>, or <<>> when int raises ValueError.
PyInt(s) ==
    IF IsDigits(s) THEN <<DigitsValue(s)>>
    ELSE IF Len(s) > 1 /\ s[1] = "-" /\ IsDigits(Tail(s)) THEN <<0 - DigitsValue(Tail(s))>>
    ELSE IF Len(s) > 1 /\ s[1] = "+" /\ IsDigits(Tail(s)) THEN <<DigitsValue(Tail(s))>>
    ELSE <<>>

\* IntervalConfig.key_to_label
key_to_label(key) == PyStr(key[1]) \o <<"-">> \o PyStr(key[2])

\* IntervalConfig.label_to_key: the exception raised (None when it returns)
\* and the tuple returned.
label_to_key(label) ==
    LET parts == PySplit(label, "-")
        ints == [i \in 1..Len(parts) |-> PyInt(parts[i])]
    IN  IF \E i \in 1..Len(parts) : ints[i] = <<>>
        THEN [ret |-> "ValueError", key |-> <<>>]
        ELSE [ret |-> None, key |-> [i \in 1..Len(parts) |-> ints[i][1]]]

\* IntervalConfig.from_label_dict(d), d a function from labels to values:
\* the new config, or the exception raised.
from_label_dict(d) ==
    LET ints(k) == LET parts == PySplit(k, "-")
                   IN  [i \in 1..Len(parts) |-> PyInt(parts[i])]
    IN  IF \E k \in DOMAIN d : \E i \in 1..Len(ints(k)) : ints(k)[i] = <<>>
        THEN [ret |-> "ValueError", parent |-> <<>>, tree |-> {}]
        ELSE IF \E k \in DOMAIN d : Len(ints(k)) # 2
        THEN [ret |-> "TypeError", parent |-> <<>>, tree |-> {}]
        ELSE LET ivs == {Interval(ints(k)[1][1], ints(k)[2][1], d[k]) : k \in DOMAIN d}
             IN  IF \E iv \in ivs : iv[1] >= iv[2]
                 THEN [ret |-> "ValueError", parent |-> <<>>, tree |-> {}]
                 ELSE [ret |-> None] @@ IntervalConfig_init(<<IntervalTree(ivs)>>, <<>>)

----
\* DictConfig S (no parent) and the BaseConfig indexing protocol.

Names == {"ranges", "other"}
\* The value of S's attribute that is the IntervalConfig R itself.
RefR == "<R>"
DictValues == Values \cup {RefR}

\* DictConfig.lookup on S
dict_lookup(a, key) == IF key \in DOMAIN a THEN a[key] ELSE KeyError

\* DictConfig.configure on S
dict_configure(a, key, v) == (key :> v) @@ a

\* BaseConfig.keys on S: its local keys, S having no parent.
dict_keys(a) == DOMAIN a

\* IntervalConfig._keys: the (begin, end) pairs of the stored intervals.
interval_keys(t) == {<<iv[1], iv[2]>> : iv \in t}

\* Python's == between an int and a tuple.
PyEqIntTuple(i, k) == FALSE

\* BaseConfig.__setitem__ on R with the tuple key (begin, end): what it
\* raises (None when it returns) and R's tree afterwards.
interval_setitem2(t, par, key, v) ==
    IF par # <<>> THEN [ret |-> "AttributeError", tree |-> t]
    ELSE IF \E k \in interval_keys(t) : PyEqIntTuple(key[1], k)
    THEN [ret |-> IF value(t, key[1]) = KeyError THEN KeyError ELSE "TypeError",
          tree |-> t]
    ELSE [ret |-> KeyError, tree |-> t]

\* BaseConfig.__setitem__ on S with the composite key (k0, (begin, end)).
dict_setitem2(a, t, par, k0, key, v) ==
    IF k0 \in dict_keys(a)
    THEN IF dict_lookup(a, k0) = RefR
         THEN interval_setitem2(t, par, key, v)
         ELSE [ret |-> "TypeError", tree |-> t]
    ELSE [ret |-> KeyError, tree |-> t]

\* IntervalTree.begin() and end(): the least begin and the greatest end,
\* 0 for an empty tree.
tree_begin(t) ==
    IF t = {} THEN 0 ELSE CHOOSE b \in {iv[1] : iv \in t} : \A iv \in t : b <= iv[1]
tree_end(t) ==
    IF t = {} THEN 0 ELSE CHOOSE e \in {iv[2] : iv \in t} : \A iv \in t : e >= iv[2]

Max(a, b) == IF a > b THEN a ELSE b

\* IntervalConfig.overlap: the hits clipped to [begin, end), sorted.
overlap(t, begin, end) ==
    LET hits == sorted(tree_overlap(t, begin, end))
    IN  [i \in 1..Len(hits) |->
            Interval(Max(hits[i][1], begin), Min(hits[i][2], end), hits[i][3])]

\* Python's "x or default" for x an optional integer (<<>> is None):
\* None and 0 are both falsy.
PyOr(x, default) == IF x = <<>> \/ x = <<0>> THEN default ELSE x[1]

\* IntervalConfig.lookup for slice(start, stop) without a step.
lookup_slice(t, start, stop) ==
    overlap(t, PyOr(start, tree_begin(t)), PyOr(stop, tree_end(t)))

\* v[i] for a stored value v, a one-character string: v itself at index 0
\* or -1, IndexError elsewhere.
PyStrIndex(v, i) == IF i = 0 \/ i = 0 - 1 THEN v ELSE "IndexError"

\* bool(v) for a stored value v, a string.
PyBool(v) == v # ""

\* BaseConfig.__getitem__ on R with an integer key: lookup(key).
interval_getitem1(t, key) == value(t, key)

\* BaseConfig.__getitem__ on R with the tuple key (begin, end):
\* self.lookup(key[0])[key[1]], in the result shape of overlap_content.
interval_getitem2(t, key) ==
    LET first == value(t, key[1])
    IN  IF first = KeyError
        THEN [exc |-> KeyError, unwrapped |-> FALSE, data |-> <<>>]
        ELSE IF PyStrIndex(first, key[2]) = "IndexError"
        THEN [exc |-> "IndexError", unwrapped |-> FALSE, data |-> <<>>]
        ELSE [exc |-> None, unwrapped |-> TRUE, data |-> <<PyStrIndex(first, key[2])>>]

\* IntervalConfig.__contains__ with an integer key: "True", "False", or
\* the exception raised.
contains1(t, key) ==
    LET item == interval_getitem1(t, key)
    IN  IF item = KeyError THEN KeyError
        ELSE IF PyBool(item) THEN "True" ELSE "False"

\* IntervalConfig.__contains__ with the tuple key (begin, end).
contains2(t, key) ==
    LET item == interval_getitem2(t, key)
    IN  IF item.exc # None THEN item.exc
        ELSE IF PyBool(item.data[1]) THEN "True" ELSE "False"

\* IntervalConfig.delete with a label: the label is decoded and nothing
\* else is done.
delete_label(t, label) ==
    IF label_to_key(label).ret # None
    THEN [ret |-> label_to_key(label).ret, tree |-> t]
    ELSE [ret |-> None, tree |-> t]

\* IntervalConfig.delete with slice(begin, end): reading key.end raises.
delete_slice(t, begin, end) == [ret |-> "AttributeError", tree |-> t]

----
\* The scope chain: sc[1] is the _attrs of S, sc[i + 1] those of the child
\* of the context of sc[i]; level i names the context of sc[i].

\* BaseConfig.keys on the context at level i.
RECURSIVE chain_keys(_, _)
chain_keys(sc, i) ==
    DOMAIN sc[i] \cup (IF i > 1 THEN chain_keys(sc, i - 1) ELSE {})

\* DictConfig.lookup on the context at level i. The definition before it
\* asks the parent first.
RECURSIVE chain_lookup_parent_first(_, _, _)
chain_lookup_parent_first(sc, i, key) ==
    IF i > 1 /\ chain_lookup_parent_first(sc, i - 1, key) # KeyError
    THEN chain_lookup_parent_first(sc, i - 1, key)
    ELSE IF key \in DOMAIN sc[i] THEN sc[i][key] ELSE KeyError

RECURSIVE chain_lookup(_, _, _)
chain_lookup(sc, i, key) ==
    IF key \in DOMAIN sc[i] THEN sc[i][key]
    ELSE IF i > 1 THEN chain_lookup(sc, i - 1, key)
    ELSE KeyError

\* DictConfig.configure on the context at level i. The definition before
\* it writes to the nearest scope that already binds the key.
chain_configure_where_bound(sc, i, key, v) ==
    LET binders == {j \in 1..i : key \in DOMAIN sc[j]}
        j == IF binders = {} THEN i ELSE CHOOSE b \in binders : \A c \in binders : c <= b
    IN  [sc EXCEPT ![j] = (key :> v) @@ @]

chain_configure(sc, i, key, v) == [sc EXCEPT ![i] = (key :> v) @@ @]

\* BaseConfig.subcontext on the deepest context: a child with no bindings.
subcontext(sc) == Append(sc, <<>>)

\* BaseConfig.__setitem__ on the context at level i with a plain key.
chain_setitem1(sc, i, key, v) == chain_configure(sc, i, key, v)

\* BaseConfig.__setitem__ on the context at level i with the composite key
\* (k0, (begin, end)): the exception raised (None when it returns), R's
\* tree and the scopes afterwards. The definition before it binds k0 at the
\* root instead of raising.
RECURSIVE chain_setitem2_bind_at_root(_, _, _, _, _, _, _)
chain_setitem2_bind_at_root(sc, t, par, i, k0, key, v) ==
    IF k0 \in chain_keys(sc, i)
    THEN IF chain_lookup(sc, i, k0) = RefR
         THEN [scopes |-> sc] @@ interval_setitem2(t, par, key, v)
         ELSE [ret |-> "TypeError", tree |-> t, scopes |-> sc]
    ELSE IF i > 1 THEN chain_setitem2_bind_at_root(sc, t, par, i - 1, k0, key, v)
    ELSE [ret |-> None, tree |-> t, scopes |-> chain_configure(sc, 1, k0, v)]

RECURSIVE chain_setitem2(_, _, _, _, _, _, _)
chain_setitem2(sc, t, par, i, k0, key, v) ==
    IF k0 \in chain_keys(sc, i)
    THEN IF chain_lookup(sc, i, k0) = RefR
         THEN [scopes |-> sc] @@ interval_setitem2(t, par, key, v)
         ELSE [ret |-> "TypeError", tree |-> t, scopes |-> sc]
    ELSE IF i > 1 THEN chain_setitem2(sc, t, par, i - 1, k0, key, v)
    ELSE [ret |-> KeyError, tree |-> t, scopes |-> sc]

\* BaseConfig.__getitem__ on the context at level i with the composite key
\* (k0, p), p an integer: self.lookup(k0)[p]. The definition before it
\* looks k0 up in the context's own bindings only.
chain_getitem2_local(sc, t, i, k0, p) ==
    LET target == IF k0 \in DOMAIN sc[i] THEN sc[i][k0] ELSE KeyError
    IN  IF target = KeyError THEN KeyError
        ELSE IF target = RefR THEN interval_getitem1(t, p)
        ELSE PyStrIndex(target, p)

chain_getitem2(sc, t, i, k0, p) ==
    LET target == chain_lookup(sc, i, k0)
    IN  IF target = KeyError THEN KeyError
        ELSE IF target = RefR THEN interval_getitem1(t, p)
        ELSE PyStrIndex(target, p)

----
Idle == [op |-> "idle"]

Init ==
    /\ tree = {}
    /\ parent = <<>>
    /\ attrs = <<>>
    /\ prev = {}
    /\ prevAttrs = <<>>
    /\ last = Idle
    /\ subs = <<>>
    /\ prevSubs = <<>>

\* R.configure((start, stop), v)
Configure2 ==
    /\ last = Idle
    /\ \E w \in Windows, v \in Values :
        /\ tree' = set_interval(tree, w[1], w[2], v)
        /\ last' = [op |-> "configure2", key |-> w, val |-> v, ret |-> None]
    /\ UNCHANGED <<parent, attrs, prev, prevAttrs, subs, prevSubs>>

\* R.configure((start, stop, step), values)
Configure3 ==
    /\ last = Idle
    /\ \E w \in Windows, step \in Steps, val \in ValueSeqs :
        /\ tree' = configure_step(tree, w[1], w[2], step, val)
        /\ last' = [op |-> "configure3", key |-> <<w[1], w[2], step>>, val |-> val,
                    ret |-> None]
    /\ UNCHANGED <<parent, attrs, prev, prevAttrs, subs, prevSubs>>

\* R.delete((begin, end))
Delete2 ==
    /\ last = Idle
    /\ \E w \in Windows :
        /\ tree' = delete2(tree, w[1], w[2])
        /\ last' = [op |-> "delete2", key |-> w, ret |-> None]
    /\ UNCHANGED <<parent, attrs, prev, prevAttrs, subs, prevSubs>>

\* R.__getstate__()
GetState ==
    /\ last = Idle
    /\ last' = [op |-> "getstate", ret |-> getstate(tree)]
    /\ UNCHANGED <<tree, parent, attrs, prev, prevAttrs, subs, prevSubs>>

\* R.__setstate__(d) with d the snapshot just returned.
SetState ==
    /\ last.op = "getstate"
    /\ tree' = setstate(last.ret)
    /\ last' = [op |-> "setstate", key |-> last.ret, ret |-> None]
    /\ UNCHANGED <<parent, attrs, prev, prevAttrs, subs, prevSubs>>

\* R.lookup(p) for an integer p
Lookup ==
    /\ last = Idle
    /\ \E p \in Points : last' = [op |-> "lookup", key |-> p, ret |-> value(tree, p)]
    /\ UNCHANGED <<tree, parent, attrs, prev, prevAttrs, subs, prevSubs>>

\* R.lookup((begin, end))
Lookup2 ==
    /\ last = Idle
    /\ \E w \in Windows :
        last' = [op |-> "lookup2", key |-> w, ret |-> overlap_content(tree, w[1], w[2])]
    /\ UNCHANGED <<tree, parent, attrs, prev, prevAttrs, subs, prevSubs>>

\* p in R, for an integer p
Contains1 ==
    /\ last = Idle
    /\ \E p \in Points : last' = [op |-> "contains1", key |-> p, ret |-> contains1(tree, p)]
    /\ UNCHANGED <<tree, parent, attrs, prev, prevAttrs, subs, prevSubs>>

\* (begin, end) in R
Contains2 ==
    /\ last = Idle
    /\ \E w \in Windows : last' = [op |-> "contains2", key |-> w, ret |-> contains2(tree, w)]
    /\ UNCHANGED <<tree, parent, attrs, prev, prevAttrs, subs, prevSubs>>

\* R[p], for an integer p
GetItem1 ==
    /\ last = Idle
    /\ \E p \in Points :
        last' = [op |-> "getitem1", key |-> p, ret |-> interval_getitem1(tree, p)]
    /\ UNCHANGED <<tree, parent, attrs, prev, prevAttrs, subs, prevSubs>>

\* R[(begin, end)]
GetItem2 ==
    /\ last = Idle
    /\ \E w \in Windows :
        last' = [op |-> "getitem2", key |-> w, ret |-> interval_getitem2(tree, w)]
    /\ UNCHANGED <<tree, parent, attrs, prev, prevAttrs, subs, prevSubs>>

\* R[(begin, end)] = v
SetItem2 ==
    /\ last = Idle
    /\ \E w \in Windows, v \in Values :
        LET done == interval_setitem2(tree, parent, w, v)
        IN  /\ tree' = done.tree
            /\ last' = [op |-> "setitem2", key |-> w, val |-> v, ret |-> done.ret]
    /\ UNCHANGED <<parent, attrs, prev, prevAttrs, subs, prevSubs>>

\* R.delete(slice(begin, end))
DeleteSlice ==
    /\ last = Idle
    /\ \E w \in Windows :
        LET done == delete_slice(tree, w[1], w[2])
        IN  /\ tree' = done.tree
            /\ last' = [op |-> "delete_slice", key |-> w, src |-> w, ret |-> done.ret]
    /\ UNCHANGED <<parent, attrs, prev, prevAttrs, subs, prevSubs>>

\* R.delete("begin-end")
DeleteLabel ==
    /\ last = Idle
    /\ \E w \in Windows :
        LET done == delete_label(tree, key_to_label(w))
        IN  /\ tree' = done.tree
            /\ last' = [op |-> "delete_label", key |-> key_to_label(w), src |-> w,
                        ret |-> done.ret]
    /\ UNCHANGED <<parent, attrs, prev, prevAttrs, subs, prevSubs>>

\* R.configure((start, stop), v) on the domain with negative points
ConfigureSigned ==
    /\ last = Idle
    /\ \E w \in SignedWindows, v \in Values :
        /\ tree' = set_interval(tree, w[1], w[2], v)
        /\ last' = [op |-> "configure2", key |-> w, val |-> v, ret |-> None]
    /\ UNCHANGED <<parent, attrs, prev, prevAttrs, subs, prevSubs>>

\* An optional slice bound: None or an integer.
SliceBounds == {<<>>} \cup {<<a>> : a \in SignedPoints}

\* R.lookup(slice(start, stop))
LookupSlice ==
    /\ last = Idle
    /\ \E start \in SliceBounds, stop \in SliceBounds :
        last' = [op |-> "lookup_slice", key |-> [start |-> start, stop |-> stop],
                 ret |-> lookup_slice(tree, start, stop)]
    /\ UNCHANGED <<tree, parent, attrs, prev, prevAttrs, subs, prevSubs>>

\* Dictionaries from at most MaxLabels labels of pairwise disjoint windows.
LabelDicts ==
    LET entrySets == {E \in SUBSET Windows :
                        /\ Cardinality(E) <= MaxLabels
                        /\ \A a \in E : \A b \in E \ {a} : a[2] <= b[1] \/ b[2] <= a[1]}
    IN  UNION {[{key_to_label(w) : w \in E} -> Values] : E \in entrySets}

\* R = IntervalConfig.from_label_dict(d)
FromLabelDict ==
    /\ last = Idle
    /\ \E d \in LabelDicts :
        LET made == from_label_dict(d)
        IN  /\ tree' = made.tree
            /\ parent' = made.parent
            /\ last' = [op |-> "from_label_dict", key |-> d, ret |-> made.ret]
    /\ UNCHANGED <<attrs, prev, prevAttrs, subs, prevSubs>>

\* R.key_to_label(key)
KeyToLabel ==
    /\ last = Idle
    /\ \E key \in SignedWindows :
        last' = [op |-> "key_to_label", key |-> key, ret |-> key_to_label(key)]
    /\ UNCHANGED <<tree, parent, attrs, prev, prevAttrs, subs, prevSubs>>

\* R.label_to_key(label) with label the label just returned.
LabelToKey ==
    /\ last.op = "key_to_label"
    /\ LET back == label_to_key(last.ret)
       IN  last' = [op |-> "label_to_key", key |-> last.ret, src |-> last.key,
                    ret |-> back.ret, val |-> back.key]
    /\ UNCHANGED <<tree, parent, attrs, prev, prevAttrs, subs, prevSubs>>

\* S.configure(key, v)
DictConfigure ==
    /\ last = Idle
    /\ \E key \in Names, v \in DictValues :
        /\ attrs' = dict_configure(attrs, key, v)
        /\ last' = [op |-> "dict_configure", key |-> key, val |-> v, ret |-> None]
    /\ UNCHANGED <<tree, parent, prev, prevAttrs, subs, prevSubs>>

\* S[k0, (begin, end)] = v
DictSetItem2 ==
    /\ last = Idle
    /\ \E k0 \in Names, w \in Windows, v \in Values :
        LET done == dict_setitem2(attrs, tree, parent, k0, w, v)
        IN  /\ tree' = done.tree
            /\ last' = [op |-> "dict_setitem2", key |-> <<k0, w>>, val |-> v,
                        ret |-> done.ret]
    /\ UNCHANGED <<parent, attrs, prev, prevAttrs, subs, prevSubs>>

\* The scopes of the chain, S first.
Scopes == <<attrs>> \o subs
PrevScopes == <<prevAttrs>> \o prevSubs
Levels == 1..Len(Scopes)

\* The deepest context's subcontext()
Subcontext ==
    /\ last = Idle
    /\ Len(subs) < MaxDepth
    /\ subs' = Tail(subcontext(Scopes))
    /\ last' = [op |-> "subcontext", ret |-> None]
    /\ UNCHANGED <<tree, parent, attrs, prev, prevAttrs, prevSubs>>

\* ctx.configure(key, v) for the context at some level
ChainConfigure ==
    /\ last = Idle
    /\ \E i \in Levels, key \in Names, v \in DictValues :
        LET sc == chain_configure(Scopes, i, key, v)
        IN  /\ attrs' = Head(sc)
            /\ subs' = Tail(sc)
            /\ last' = [op |-> "chain_configure", level |-> i, key |-> key, val |-> v,
                        ret |-> None]
    /\ UNCHANGED <<tree, parent, prev, prevAttrs, prevSubs>>

\* ctx[key] = v for the context at some level
ChainSetItem1 ==
    /\ last = Idle
    /\ \E i \in Levels, key \in Names, v \in DictValues :
        LET sc == chain_setitem1(Scopes, i, key, v)
        IN  /\ attrs' = Head(sc)
            /\ subs' = Tail(sc)
            /\ last' = [op |-> "chain_setitem1", level |-> i, key |-> key, val |-> v,
                        ret |-> None]
    /\ UNCHANGED <<tree, parent, prev, prevAttrs, prevSubs>>

\* ctx.lookup(key) and key in ctx.keys() for the context at some level
ChainLookup ==
    /\ last = Idle
    /\ \E i \in Levels, key \in Names :
        last' = [op |-> "chain_lookup", level |-> i, key |-> key,
                 ret |-> chain_lookup(Scopes, i, key),
                 inkeys |-> key \in chain_keys(Scopes, i)]
    /\ UNCHANGED <<tree, parent, attrs, prev, prevAttrs, subs, prevSubs>>

\* ctx[k0, (begin, end)] = v for the context at some level
ChainSetItem2 ==
    /\ last = Idle
    /\ \E i \in Levels, k0 \in Names, w \in Windows, v \in Values :
        LET done == chain_setitem2(Scopes, tree, parent, i, k0, w, v)
        IN  /\ tree' = done.tree
            /\ attrs' = Head(done.scopes)
            /\ subs' = Tail(done.scopes)
            /\ last' = [op |-> "chain_setitem2", level |-> i, key |-> <<k0, w>>,
                        val |-> v, ret |-> done.ret]
    /\ UNCHANGED <<parent, prev, prevAttrs, prevSubs>>

\* ctx[k0, p] for the context at some level, p an integer
ChainGetItem2 ==
    /\ last = Idle
    /\ \E i \in Levels, k0 \in Names, p \in Points :
        last' = [op |-> "chain_getitem2", level |-> i, key |-> <<k0, p>>,
                 ret |-> chain_getitem2(Scopes, tree, i, k0, p)]
    /\ UNCHANGED <<tree, parent, attrs, prev, prevAttrs, subs, prevSubs>>

\* The caller takes the result; the next call starts from the current state.
Return ==
    /\ last # Idle
    /\ last' = Idle
    /\ prev' = tree
    /\ prevAttrs' = attrs
    /\ prevSubs' = subs
    /\ UNCHANGED <<tree, parent, attrs, subs>>

\* The IntervalConfig R under paints, stepped paints, deletions and the
\* snapshot round trip.
Next ==
    \/ Configure2 \/ Configure3 \/ Delete2 \/ GetState \/ SetState
    \/ Lookup2 \/ Contains1 \/ Contains2 \/ GetItem1 \/ GetItem2 \/ SetItem2
    \/ DeleteSlice \/ DeleteLabel
    \/ Return

Spec == Init /\ [][Next]_vars

\* Configs built from label dictionaries, and point queries on them.
NextLabels == FromLabelDict \/ Lookup \/ KeyToLabel \/ LabelToKey \/ Return

SpecLabels == Init /\ [][NextLabels]_vars

\* R painted below and above 0, queried with slices.
NextSlice == ConfigureSigned \/ LookupSlice \/ Return

SpecSlice == Init /\ [][NextSlice]_vars

\* The DictConfig S, which may hold R, written through composite keys.
NextCtx == Configure2 \/ DictConfigure \/ DictSetItem2 \/ Return

SpecCtx == Init /\ [][NextCtx]_vars

\* A chain of DictConfig scopes under configure, assignment and lookup.
NextChain == Subcontext \/ ChainConfigure \/ ChainSetItem1 \/ ChainLookup \/ Return

SpecChain == Init /\ [][NextChain]_vars

\* Composite writes issued at any level of a chain below S.
NextWrite == DictConfigure \/ Subcontext \/ ChainSetItem2 \/ Return

SpecWrite == Init /\ [][NextWrite]_vars

\* Composite reads of R through S and through the contexts below S.
NextRead == Configure2 \/ DictConfigure \/ Subcontext \/ ChainGetItem2 \/ Return

SpecRead == Init /\ [][NextRead]_vars

----
\* Properties.

\* Points at which the properties compare point queries: the painted domain
\* and one point on either side of it.
QueryPoints == (0 - 1)..(MaxPoint + 1)
InWindow(p, w) == w[1] <= p /\ p < w[2]
Disjoint(a, b) == a[2] <= b[1] \/ b[2] <= a[1]
\* An interval of t that reaches beyond window w on both sides.
Spans(t, w) == \E iv \in t : iv[1] < w[1] /\ w[2] < iv[2]

\* C1: after configure((s, e), v) with s < e, the point query at every p
\* with s <= p < e returns v.
C1_PaintThenQuery ==
    last.op = "configure2" =>
        \A p \in QueryPoints : InWindow(p, last.key) => value(tree, p) = last.val

\* C1 witness: a paint whose window held another value before it.
C1_Witness ==
    /\ last.op = "configure2"
    /\ \E p \in QueryPoints :
        /\ InWindow(p, last.key)
        /\ value(prev, p) \notin {KeyError, last.val}
        /\ value(tree, p) = last.val

\* C2: a paint configure((s, e), v) leaves the point-query outcome (value or
\* KeyError) of every point p < s or p >= e as it was before the paint.
C2_PaintFrame ==
    last.op = "configure2" =>
        \A p \in QueryPoints : ~InWindow(p, last.key) => value(tree, p) = value(prev, p)

\* C2 witness: the spec's example scaled to the domain, one value painted
\* over the whole domain and then another strictly inside it, so that the
\* old value is still returned on both sides of the window.
C2_Witness ==
    /\ last.op = "configure2"
    /\ prev = {Interval(0, MaxPoint, "x")}
    /\ last.key = <<1, MaxPoint - 1>>
    /\ last.val = "y"
    /\ value(tree, 0) = "x"
    /\ value(tree, 1) = "y"
    /\ value(tree, MaxPoint - 1) = "x"

\* C3: every stored interval has begin < end and no two stored intervals
\* overlap, after any sequence of paints, stepped paints and deletions.
C3_NonOverlap ==
    /\ \A iv \in tree : iv[1] < iv[2]
    /\ \A a \in tree : \A b \in tree \ {a} : a[2] <= b[1] \/ b[2] <= a[1]

\* C3 witness: a stepped paint over a config that already held intervals,
\* leaving at least three intervals stored.
C3_Witness ==
    /\ last.op = "configure3"
    /\ prev # {}
    /\ tree # prev
    /\ Cardinality(tree) >= 3

\* C4: after delete((b, e)) with b < e every point of [b, e) fails with
\* KeyError and every other point has the point-query outcome it had before.
C4_DeleteGap ==
    last.op = "delete2" =>
        \A p \in QueryPoints :
            IF InWindow(p, last.key) THEN value(tree, p) = KeyError
            ELSE value(tree, p) = value(prev, p)

\* C4 witness: a deletion strictly inside one stored interval, which is
\* split: its value is still returned on both sides of the gap.
C4_Witness ==
    /\ last.op = "delete2"
    /\ Spans(prev, last.key)
    /\ value(tree, last.key[1]) = KeyError
    /\ value(tree, last.key[1] - 1) # KeyError
    /\ value(tree, last.key[2]) # KeyError

\* C5: for windows A and B with no common point, painting A then B and
\* painting B then A give the same point-query outcome at every point.
\* A is the paint just made on prev; B ranges over all disjoint windows.
C5_DisjointPaintsCommute ==
    last.op = "configure2" =>
        \A b \in Windows, vb \in Values :
            Disjoint(last.key, b) =>
                LET ab == set_interval(tree, b[1], b[2], vb)
                    ba == set_interval(set_interval(prev, b[1], b[2], vb),
                                       last.key[1], last.key[2], last.val)
                IN  \A p \in QueryPoints : value(ab, p) = value(ba, p)

\* C5 witness: a paint of A on a config where one stored interval covered
\* both A and a window B disjoint from A.
C5_Witness ==
    /\ last.op = "configure2"
    /\ \E b \in Windows :
        /\ Disjoint(last.key, b)
        /\ \E iv \in prev : iv[1] <= Min(last.key[1], b[1]) /\ iv[2] >= last.key[2]
                            /\ iv[2] >= b[2]

\* Number of sub-windows of [start, stop) cut at each step boundary.
SubWindows(start, stop, step) == (stop - start + step - 1) \div step

\* C6: after a stepped paint with at least as many values as sub-windows,
\* every point p of [start, stop) returns the value at index
\* (p - start) div step of the sequence.
C6_SteppedPaintCovers ==
    (/\ last.op = "configure3"
     /\ Len(last.val) >= SubWindows(last.key[1], last.key[2], last.key[3])) =>
        \A p \in last.key[1]..(last.key[2] - 1) :
            value(tree, p) = last.val[((p - last.key[1]) \div last.key[3]) + 1]

\* C7: a stepped paint with fewer values than sub-windows fails with
\* LengthMismatch and leaves the index unchanged.
C7_SteppedLengthCheck ==
    (/\ last.op = "configure3"
     /\ Len(last.val) < SubWindows(last.key[1], last.key[2], last.key[3])) =>
        /\ last.ret = "LengthMismatch"
        /\ tree = prev

\* The window a label of LabelDicts stands for.
WindowOf(label) == CHOOSE w \in Windows : key_to_label(w) = label

\* C8: with S's local key "ranges" bound to R, the assignment
\* S["ranges", (b, e)] = v succeeds, every point of [b, e) of R then returns
\* v, and S's bindings are unchanged.
C8_CompositeWrite ==
    (/\ last.op = "dict_setitem2"
     /\ last.key[1] = "ranges"
     /\ "ranges" \in DOMAIN prevAttrs
     /\ prevAttrs["ranges"] = RefR) =>
        /\ last.ret = None
        /\ \A p \in QueryPoints : InWindow(p, last.key[2]) => value(tree, p) = last.val
        /\ attrs = prevAttrs

\* C9: from_label_dict(d) returns a config in which every point inside a
\* label's range returns that label's value, every point covered by no
\* label fails with KeyError, and which is non-empty whenever d is.
C9_FromLabelDict ==
    last.op = "from_label_dict" =>
        /\ last.ret = None
        /\ \A p \in QueryPoints :
            IF \E k \in DOMAIN last.key : InWindow(p, WindowOf(k))
            THEN \A k \in DOMAIN last.key :
                    InWindow(p, WindowOf(k)) => value(tree, p) = last.key[k]
            ELSE value(tree, p) = KeyError
        /\ (DOMAIN last.key # {} => tree # {})

\* C10: the snapshot is the sequence of all stored triples in increasing
\* (begin, end) order, and restoring it gives the same stored triples and
\* the same point-query outcome at every point.
C10_SnapshotRoundTrip ==
    /\ last.op = "getstate" =>
        /\ {last.ret[i] : i \in 1..Len(last.ret)} = tree
        /\ Len(last.ret) = Cardinality(tree)
        /\ \A i \in 1..(Len(last.ret) - 1) :
            \/ last.ret[i][1] < last.ret[i + 1][1]
            \/ last.ret[i][1] = last.ret[i + 1][1] /\ last.ret[i][2] < last.ret[i + 1][2]
    /\ last.op = "setstate" =>
        /\ tree = prev
        /\ {last.key[i] : i \in 1..Len(last.key)} = tree
        /\ \A p \in QueryPoints : value(tree, p) = value(prev, p)

\* C10 witness: a snapshot of at least two intervals with different values
\* has been restored.
C10_Witness ==
    /\ last.op = "setstate"
    /\ Len(last.key) >= 2
    /\ \E i, j \in 1..Len(last.key) : last.key[i][3] # last.key[j][3]
    /\ tree # {}

\* C11: for all integer pairs (begin, end) with begin < end, negative
\* integers included, label_to_key(key_to_label((begin, end))) returns
\* (begin, end).
C11_LabelRoundTrip ==
    last.op = "label_to_key" =>
        /\ last.ret = None
        /\ last.val = last.src

\* The stored intervals sharing at least one point with window w.
Overlapping(t, w) ==
    {iv \in t : \E p \in QueryPoints : InWindow(p, w) /\ InWindow(p, iv)}

\* C12: lookup((begin, end)) returns the stored value itself when exactly
\* one stored interval overlaps [begin, end), the sequence of the values
\* ordered by interval start when two or more do, and the empty sequence
\* when none does; intervals that only touch the window do not count.
C12_RangeOverlapUnwrap ==
    last.op = "lookup2" =>
        LET hits == Overlapping(tree, last.key)
        IN  /\ last.ret.exc = None
            /\ Cardinality(hits) = 1 =>
                /\ last.ret.unwrapped
                /\ \E iv \in hits : last.ret.data = <<iv[3]>>
            /\ Cardinality(hits) # 1 =>
                /\ ~last.ret.unwrapped
                /\ Len(last.ret.data) = Cardinality(hits)
                /\ \A iv \in hits :
                    last.ret.data[Cardinality({h \in hits : h[1] < iv[1]}) + 1] = iv[3]

\* C12 witness: a range query that returned two or more values while a
\* stored interval touching the window was left out.
C12_Witness ==
    /\ last.op = "lookup2"
    /\ ~last.ret.unwrapped
    /\ Len(last.ret.data) >= 2
    /\ \E iv \in tree : iv[2] = last.key[1] \/ iv[1] = last.key[2]

\* C13: key in cfg is true iff lookup(key) would not fail (for a
\* (begin, end) key: iff the overlap result is non-empty) and false
\* otherwise; for an uncovered point it yields false instead of failing.
C13_Containment ==
    /\ last.op = "contains1" =>
        last.ret = (IF \E iv \in tree : InWindow(last.key, iv) THEN "True" ELSE "False")
    /\ last.op = "contains2" =>
        last.ret = (IF Overlapping(tree, last.key) # {} THEN "True" ELSE "False")

\* C18: delete(slice(b, e)) and delete of the label "b-e" remove the
\* coverage delete((b, e)) removes: every point of [b, e) then fails with
\* KeyError and every other point keeps its point-query outcome.
C18_DeleteKeyShapes ==
    last.op \in {"delete_slice", "delete_label"} =>
        /\ last.ret = None
        /\ \A p \in QueryPoints :
            IF InWindow(p, last.src) THEN value(tree, p) = KeyError
            ELSE value(tree, p) = value(prev, p)

\* C20: R[k] has the outcome of R.lookup(k) and R[k] = v the effect of
\* R.configure(k, v): R[p] is the point query, R[(b, e)] the range-overlap
\* query on [b, e), and R[(b, e)] = v paints [b, e) -> v.
C20_IndexingDelegates ==
    /\ last.op = "getitem1" => last.ret = value(tree, last.key)
    /\ last.op = "getitem2" =>
        last.ret = overlap_content(tree, last.key[1], last.key[2])
    /\ last.op = "setitem2" =>
        /\ last.ret = None
        /\ tree = set_interval(prev, last.key[1], last.key[2], last.val)

\* C19: lookup(slice(a, b)) returns, for exactly the stored intervals
\* overlapping [a, b), the clipped triples (max(begin, a), min(end, b),
\* value) sorted by start; only an absent start or stop is replaced by the
\* index's least begin or greatest end, an explicit bound (0 too) is used
\* as given.
C19_SliceLookup ==
    last.op = "lookup_slice" =>
        LET a == IF last.key.start = <<>> THEN tree_begin(tree) ELSE last.key.start[1]
            b == IF last.key.stop = <<>> THEN tree_end(tree) ELSE last.key.stop[1]
            hits == {iv \in tree : \E p \in ((0 - MaxNeg) - 1)..(MaxNeg + 1) :
                                    a <= p /\ p < b /\ InWindow(p, iv)}
            clipped == {Interval(Max(iv[1], a), Min(iv[2], b), iv[3]) : iv \in hits}
        IN  /\ {last.ret[i] : i \in 1..Len(last.ret)} = clipped
            /\ Len(last.ret) = Cardinality(hits)
            /\ \A i \in 1..(Len(last.ret) - 1) : last.ret[i][1] < last.ret[i + 1][1]

\* The levels at or above level i whose own bindings hold key.
Binders(sc, i, key) == {j \in 1..i : key \in DOMAIN sc[j]}

\* The nearest of a non-empty set of levels: the deepest one.
Nearest(js) == CHOOSE b \in js : \A c \in js : c <= b

\* C14: a composite assignment ctx[k0, (begin, end)] = v on a context of a
\* chain in which no scope from that context up to the root binds k0 raises
\* KeyError, and leaves every scope of the chain and R as they were.
C14_UndefinedCompositeWrite ==
    (last.op = "chain_setitem2" /\ Binders(PrevScopes, last.level, last.key[1]) = {})
        => /\ last.ret = KeyError
           /\ Scopes = PrevScopes
           /\ tree = prev

\* A write issued two levels below the root whose first part is bound
\* nowhere, while the root binds the other name, has raised KeyError.
C14_Witness ==
    /\ last.op = "chain_setitem2"
    /\ last.level = 3
    /\ Binders(PrevScopes, last.level, last.key[1]) = {}
    /\ DOMAIN attrs # {}
    /\ last.ret = KeyError

\* C15: configure(k, v) or ctx[k] = v on a context of a chain leaves the
\* own bindings of every ancestor, and every ancestor's lookup of every
\* name, as they were, and the context's own lookup(k) then returns v.
C15_ScopedOverride ==
    (last.op \in {"chain_configure", "chain_setitem1"})
        => /\ \A j \in 1..(last.level - 1) :
                /\ DOMAIN Scopes[j] = DOMAIN PrevScopes[j]
                /\ \A n \in Names :
                    chain_lookup(Scopes, j, n) = chain_lookup(PrevScopes, j, n)
           /\ chain_lookup(Scopes, last.level, last.key) = last.val

\* A context below the root has overridden a name that an ancestor binds
\* to a different value.
C15_Witness ==
    /\ last.op \in {"chain_configure", "chain_setitem1"}
    /\ last.level >= 2
    /\ Binders(PrevScopes, last.level - 1, last.key) # {}
    /\ chain_lookup(PrevScopes, last.level - 1, last.key) # last.val
    /\ chain_lookup(Scopes, last.level, last.key) = last.val

\* C16: lookup(k) on a context of a chain returns the value bound to k in
\* the nearest scope that binds it, raises KeyError exactly when no scope
\* from the context up to the root binds k, and k is in keys() exactly
\* when the lookup succeeds.
C16_ChainLookupShadowing ==
    (last.op = "chain_lookup")
        => LET js == Binders(Scopes, last.level, last.key)
           IN  /\ (js = {}) <=> (last.ret = KeyError)
               /\ js # {} => last.ret = Scopes[Nearest(js)][last.key]
               /\ last.inkeys <=> (last.ret # KeyError)

\* A lookup below the root has found a name that the context and an
\* ancestor bind to different values.
C16_Witness ==
    /\ last.op = "chain_lookup"
    /\ last.level >= 2
    /\ last.key \in DOMAIN Scopes[last.level]
    /\ \E j \in 1..(last.level - 1) :
        /\ last.key \in DOMAIN Scopes[j]
        /\ Scopes[j][last.key] # Scopes[last.level][last.key]
    /\ last.ret = Scopes[last.level][last.key]
    /\ last.inkeys

\* C17: when the nearest binding of "ranges" seen from a context is R, the
\* composite read ctx["ranges", i] returns the data of the interval of R
\* that covers i, raises KeyError when none does, and changes neither the
\* scopes nor R.
C17_CompositeRead ==
    (/\ last.op = "chain_getitem2"
     /\ last.key[1] = "ranges"
     /\ Binders(PrevScopes, last.level, "ranges") # {}
     /\ PrevScopes[Nearest(Binders(PrevScopes, last.level, "ranges"))]["ranges"] = RefR)
        => /\ \A iv \in prev : InWindow(last.key[2], iv) => last.ret = iv[3]
           /\ (\A iv \in prev : ~InWindow(last.key[2], iv)) => last.ret = KeyError
           /\ Scopes = PrevScopes
           /\ tree = prev

\* A context below the root that does not bind "ranges" itself has read a
\* covered point of R through the binding of an ancestor.
C17_Witness ==
    /\ last.op = "chain_getitem2"
    /\ last.key[1] = "ranges"
    /\ last.level >= 2
    /\ "ranges" \notin DOMAIN Scopes[last.level]
    /\ chain_lookup(Scopes, last.level, "ranges") = RefR
    /\ \E iv \in tree : InWindow(last.key[2], iv) /\ last.ret = iv[3]

====
